---- MODULE Spec2Model ----
(***************************************************************************)
(* Model of the documentation app's rendering core:                        *)
(*   - the diagram runtime of components/architecture_diagram.py (the      *)
(*     client script: popup hover state machine, popup placement,          *)
(*     edgePoint),                                                         *)
(*   - the route generator of pages/endpoint_pages.py.                     *)
(* Each part has its own specification over the shared variables; the      *)
(* variables of the other parts stay at their initial values.              *)
(***************************************************************************)
EXTENDS Integers, Sequences, FiniteSets, TLC

\* ------------------------------------------------------------------ bounds
NumNodes == 3
MaxTimers == 3
TickStep == 50
GridUnit == 50
MaxGridW == 24
MaxGridH == 8
MaxEdgeGrid == 4
MaxIds == 2
MaxRows == 2       \* entries of a record's list or mapping
MaxRowLen == 5     \* fields of a request-body row
MaxCat == 4        \* records of the catalog the related records are taken from
MaxCode == 600     \* status codes run from -MaxCode to MaxCode
MaxQuery == 2      \* characters of a search text
MaxResizes == 2    \* resize events of the window
MaxRenders == 2    \* script runs that render the same record
MaxEp == 3         \* records of the catalog the actor popups are built from

\* ------------------------------------------------------- program constants
GraceDelay == 150
PopupWidth == 480
PopupHeight == 400
PopupGutter == 12
LeftShift == 490
BottomShift == 410
NodeMinWidth == 130
MinDiagramHeight == 620
LabelRaise == 6

Max(a, b) == IF a >= b THEN a ELSE b
Min(a, b) == IF a <= b THEN a ELSE b
Abs(a) == IF a >= 0 THEN a ELSE 0 - a

VARIABLES
  \* diagram runtime: popup logic
  activePopup,   \* let activePopup
  hoverNode,     \* let hoverNode
  hoverPopup,    \* let hoverPopup
  visible,       \* the popups whose classList holds 'visible'
  style,         \* popup.style.left / popup.style.top of every popup
  timers,        \* pending setTimeout callbacks of hidePopup: ms left, oldest first
  ptr,           \* where the browser's pointer is (what the mouse events report)
  \* observers of the popup logic (history, read by the properties only)
  sinceLeave,    \* ms since the latest mouseleave, saturating
  leftNode,      \* the node whose area (node or popup) the latest mouseleave left
  hideCount,     \* runs of the timer's hide branch since the latest showPopup
  lastFire,      \* what the latest timer callback did, reset by every mouse event
  flicker,       \* the latest mouseenter re-entered within the grace delay after a hide
  \* popup placement as a function of the geometry
  geom, placed,
  \* edgePoint
  edgeIn, edgeOut,
  \* route generator
  catalog,       \* data.endpoints.ENDPOINTS
  pages, by_id,  \* what build_endpoint_pages returned in the latest script run
  pc,            \* position of the script run in main(): "start" or "nav"
  out,           \* what the latest invocation of a page function did
  session_state, \* st.session_state["_endpoint_page_map"], with the build it is of
  req,           \* the navigation that led to the latest invocation
  \* schema renderer
  renderIn,      \* the record given to render_endpoint_detail, and ENDPOINTS
  renderOut,     \* what the call emitted, and whether it raised
  \* status badge
  statusCode, badge, \* the argument of status_code_html and the class it gave
  \* listing
  searchIn,      \* ENDPOINTS, the search text and the method filter
  listed,        \* the cards the listing page showed, and whether it stopped
  renderLog,     \* what each of the successive renders of renderIn emitted
  \* diagram runtime: edge layer
  diagram,       \* the node elements of the document and the declared arrows
  layout,        \* the geometry getBoundingClientRect reports now
  layer,         \* the g.arrow-g children of #arrowsSvg, in document order
  settle,        \* pending setTimeout(drawArrows, 200) callbacks
  drawHist,      \* history: redraws, resize events, timers scheduled and run,
                 \* and the layout at the latest redraw
  \* diagram build
  buildIn,       \* ENDPOINTS, ACTOR_ENDPOINTS and ENTITY_FIELDS
  built          \* what build_diagram_html returned, or that it raised

hoverVars == <<activePopup, hoverNode, hoverPopup, visible, style, timers, ptr,
               sinceLeave, leftNode, hideCount, lastFire, flicker>>
placeVars == <<geom, placed>>
edgeVars == <<edgeIn, edgeOut>>
routeVars == <<catalog, pages, by_id, pc, out, session_state, req>>
renderVars == <<renderIn, renderOut>>
listVars == <<statusCode, badge, searchIn, listed>>
drawVars == <<diagram, layout, layer, settle, drawHist>>
buildVars == <<buildIn, built>>
vars == <<hoverVars, placeVars, edgeVars, routeVars, renderVars, listVars, renderLog,
          drawVars, buildVars>>

\* ---------------------------------------------------------------- geometry
NoPos == [left |-> -1000000, top |-> -1000000]

\* showPopup, lines 330-342: the placement of a popup for node rectangle nr
\* inside the diagram rectangle dr (both relative to the diagram's origin).
\* showPopup without the fallback of line 337.
PopupLeftNoFallback(nr, dr) ==
  LET l0 == nr.x + nr.w + PopupGutter
  IN IF l0 + PopupWidth > dr.w THEN nr.x - LeftShift ELSE l0

PopupLeft(nr, dr) ==
  LET l0 == nr.x + nr.w + PopupGutter
      l1 == IF l0 + PopupWidth > dr.w THEN nr.x - LeftShift ELSE l0
  IN IF l1 < 0 THEN nr.x ELSE l1

PopupTop(nr, dr) ==
  LET t0 == nr.y
      t1 == IF t0 + PopupHeight > dr.h THEN dr.h - BottomShift ELSE t0
  IN IF t1 < 0 THEN 0 ELSE t1

PopupPos(nr, dr) == [left |-> PopupLeft(nr, dr), top |-> PopupTop(nr, dr)]

\* ------------------------------------------------------- the diagram's nodes
Nodes == 1..NumNodes
NoNode == 0
PopupOf(n) == <<"p", n>>
Popups == {PopupOf(n) : n \in Nodes}
NoPopup == <<"p", NoNode>>

\* The style sheet's node positions (#n-ipm .. #n-fac) and .diagram / .node sizes.
NodeLeftPct == <<2, 36, 68, 2, 36, 68, 36, 68>>
NodeTopPx == <<30, 30, 30, 200, 200, 200, 380, 380>>
DiagramRect == [w |-> 20 * GridUnit, h |-> MinDiagramHeight]
\* The height of a node plays no part in the popup logic.
NodeRect(n) == [x |-> (NodeLeftPct[n] * DiagramRect.w) \div 100, y |-> NodeTopPx[n],
                w |-> NodeMinWidth, h |-> GridUnit]

Out == [kind |-> "out", id |-> NoNode]
OverNode(n) == [kind |-> "node", id |-> n]
OverPopup(n) == [kind |-> "popup", id |-> n]

\* ------------------------------------------------------------ popup logic
\* showPopup without line 328: the other active popup keeps 'visible'.
ShowPopupNoHide(n) ==
  /\ visible' = visible \cup {PopupOf(n)}
  /\ style' = [style EXCEPT ![PopupOf(n)] = PopupPos(NodeRect(n), DiagramRect)]
  /\ activePopup' = PopupOf(n)

\* showPopup without line 344: the popup is shown, the slot is not set.
ShowPopupNoSlot(n) ==
  /\ visible' = (IF activePopup # NoPopup /\ activePopup # PopupOf(n)
                 THEN visible \ {activePopup} ELSE visible) \cup {PopupOf(n)}
  /\ style' = [style EXCEPT ![PopupOf(n)] = PopupPos(NodeRect(n), DiagramRect)]
  /\ activePopup' = activePopup

\* showPopup(nodeEl), lines 324-345.
ShowPopup(n) ==
  /\ visible' = (IF activePopup # NoPopup /\ activePopup # PopupOf(n)
                 THEN visible \ {activePopup} ELSE visible) \cup {PopupOf(n)}
  /\ style' = [style EXCEPT ![PopupOf(n)] = PopupPos(NodeRect(n), DiagramRect)]
  /\ activePopup' = PopupOf(n)

\* hidePopup(), lines 347-354: schedules the callback, GraceDelay ms from now.
HidePopup == timers' = Append(timers, GraceDelay)

\* A callback that hides whatever the hover state is.
TimerHidesBlind == activePopup # NoPopup

\* The callback's condition, line 349.
TimerHides == hoverNode = NoNode /\ ~hoverPopup /\ activePopup # NoPopup

\* A hide branch that leaves the active-popup slot set.
HideActiveKeepSlot ==
  /\ visible' = visible \ {activePopup}
  /\ activePopup' = activePopup

\* The callback's hide branch, lines 350-351.
HideActive ==
  /\ visible' = visible \ {activePopup}
  /\ activePopup' = NoPopup

\* node 'mouseenter' listener, lines 357-360. The pointer comes from outside
\* every node and popup (the browser reports the leave of the previous element
\* first).
MouseEnterNode(n) ==
  /\ ptr = Out
  /\ ptr' = OverNode(n)
  /\ hoverNode' = n
  /\ ShowPopup(n)
  /\ flicker' = (leftNode = n /\ sinceLeave < GraceDelay /\ hideCount > 0)
  /\ hideCount' = 0
  /\ lastFire' = "none"
  /\ UNCHANGED <<hoverPopup, timers, sinceLeave, leftNode>>

\* node 'mouseleave' listener, lines 361-364.
MouseLeaveNode(n) ==
  /\ ptr = OverNode(n)
  /\ Len(timers) < MaxTimers
  /\ ptr' = Out
  /\ hoverNode' = NoNode
  /\ HidePopup
  /\ sinceLeave' = 0
  /\ leftNode' = n
  /\ lastFire' = "none"
  /\ flicker' = FALSE
  /\ UNCHANGED <<activePopup, hoverPopup, visible, style, hideCount>>

\* popup 'mouseenter' listener, line 368. Only a displayed popup can be entered.
MouseEnterPopup(n) ==
  /\ ptr = Out
  /\ PopupOf(n) \in visible
  /\ ptr' = OverPopup(n)
  /\ hoverPopup' = TRUE
  /\ flicker' = (leftNode = n /\ sinceLeave < GraceDelay /\ hideCount > 0)
  /\ lastFire' = "none"
  /\ UNCHANGED <<activePopup, hoverNode, visible, style, timers, sinceLeave, leftNode,
                 hideCount>>

\* popup 'mouseleave' listener, lines 369-372.
MouseLeavePopup(n) ==
  /\ ptr = OverPopup(n)
  /\ Len(timers) < MaxTimers
  /\ ptr' = Out
  /\ hoverPopup' = FALSE
  /\ HidePopup
  /\ sinceLeave' = 0
  /\ leftNode' = n
  /\ lastFire' = "none"
  /\ flicker' = FALSE
  /\ UNCHANGED <<activePopup, hoverNode, visible, style, hideCount>>

\* The oldest pending callback of hidePopup runs, once its delay has elapsed
\* (all delays are equal, so callbacks run in the order they were scheduled).
TimerFire ==
  /\ Len(timers) > 0
  /\ Head(timers) = 0
  /\ timers' = Tail(timers)
  /\ IF TimerHides
     THEN /\ HideActive
          /\ hideCount' = Min(hideCount + 1, 2)
          /\ lastFire' = "hid"
     ELSE /\ UNCHANGED <<visible, activePopup, hideCount>>
          /\ lastFire' = "noop"
  /\ UNCHANGED <<hoverNode, hoverPopup, style, ptr, sinceLeave, leftNode, flicker>>

\* TickStep ms pass; a due callback may run late.
Tick ==
  /\ timers' = [i \in DOMAIN timers |-> Max(timers[i] - TickStep, 0)]
  /\ sinceLeave' = Min(sinceLeave + TickStep, GraceDelay + TickStep)
  /\ UNCHANGED <<activePopup, hoverNode, hoverPopup, visible, style, ptr, leftNode,
                 hideCount, lastFire, flicker>>

HoverInit ==
  /\ activePopup = NoPopup
  /\ hoverNode = NoNode
  /\ hoverPopup = FALSE
  /\ visible = {}
  /\ style = [p \in Popups |-> NoPos]
  /\ timers = <<>>
  /\ ptr = Out
  /\ sinceLeave = GraceDelay + TickStep
  /\ leftNode = NoNode
  /\ hideCount = 0
  /\ lastFire = "none"
  /\ flicker = FALSE

\* --------------------------------------------------------- popup placement
\* The geometry getBoundingClientRect may report to showPopup: a diagram at
\* least MinDiagramHeight high (.diagram min-height) and a node rectangle on
\* the grid or in one of the style sheet's columns.
DiagramWidths == {GridUnit * k : k \in 10..MaxGridW}
DiagramHeights == {MinDiagramHeight + 2 * GridUnit * k : k \in 0..(MaxGridH - 6)}
NodeXs(w) == {GridUnit * k : k \in 0..MaxGridW} \cup
             {(NodeLeftPct[i] * w) \div 100 : i \in DOMAIN NodeLeftPct}
NodeYs == {2 * GridUnit * k : k \in 0..MaxGridH} \cup {NodeTopPx[i] : i \in DOMAIN NodeTopPx}
NodeWidths == {GridUnit, NodeMinWidth}

GeometriesOf(dw) ==
  {[dr |-> [w |-> dw, h |-> dh], nr |-> [x |-> nx, y |-> ny, w |-> nw, h |-> GridUnit]] :
     dh \in DiagramHeights, nx \in NodeXs(dw), ny \in NodeYs, nw \in NodeWidths}
Geometries == UNION {GeometriesOf(dw) : dw \in DiagramWidths}

PlaceInit == geom \in Geometries /\ placed = NoPos

\* showPopup computes the placement for the geometry at hand.
PlacePopup ==
  /\ placed = NoPos
  /\ placed' = PopupPos(geom.nr, geom.dr)
  /\ UNCHANGED geom

\* ---------------------------------------------------------------- edgePoint
\* A JavaScript number as an exact fraction n/d, d > 0; d = 0 is NaN (0/0).
Frac(n, d) == [n |-> n, d |-> d]

\* edgePoint with hw and hh exchanged in the side test of line 271.
EdgePointSwapped(cx, cy, w, h, tx, ty) ==
  LET dx == tx - cx
      dy == ty - cy
      absDx == Abs(dx)
      absDy == Abs(dy)
  IN IF absDx * w > absDy * h
     THEN LET sign == IF dx > 0 THEN 1 ELSE -1
          IN [x |-> Frac(2 * cx + sign * w, 2),
              y |-> Frac(cy * 2 * absDx + dy * w, 2 * absDx)]
     ELSE LET sign == IF dy > 0 THEN 1 ELSE -1
          IN [x |-> Frac(cx * 2 * absDy + dx * h, 2 * absDy),
              y |-> Frac(2 * cy + sign * h, 2)]

\* edgePoint(cx, cy, w, h, tx, ty), lines 267-278, in exact arithmetic
\* (hw = w/2, hh = h/2, so absDx * hh > absDy * hw iff absDx * h > absDy * w).
EdgePoint(cx, cy, w, h, tx, ty) ==
  LET dx == tx - cx
      dy == ty - cy
      absDx == Abs(dx)
      absDy == Abs(dy)
  IN IF absDx * h > absDy * w
     THEN LET sign == IF dx > 0 THEN 1 ELSE -1
          IN [x |-> Frac(2 * cx + sign * w, 2),
              y |-> Frac(cy * 2 * absDx + dy * w, 2 * absDx)]
     ELSE LET sign == IF dy > 0 THEN 1 ELSE -1
          IN [x |-> Frac(cx * 2 * absDy + dx * h, 2 * absDy),
              y |-> Frac(2 * cy + sign * h, 2)]

EdgeCoords == {GridUnit * k : k \in 0..MaxEdgeGrid}
EdgeSizes == {[w |-> 40, h |-> 20], [w |-> 20, h |-> 40], [w |-> NodeMinWidth, h |-> GridUnit]}
EdgeInputs ==
  {[cx |-> cx, cy |-> cy, w |-> sz.w, h |-> sz.h, tx |-> tx, ty |-> ty] :
     cx \in EdgeCoords, cy \in EdgeCoords, tx \in EdgeCoords, ty \in EdgeCoords,
     sz \in EdgeSizes}

EdgeInit == edgeIn \in EdgeInputs /\ edgeOut = <<>>

\* drawArrows calls edgePoint for the node and the centre of the other node.
ComputeEdgePoint ==
  /\ edgeOut = <<>>
  /\ edgeOut' = EdgePoint(edgeIn.cx, edgeIn.cy, edgeIn.w, edgeIn.h, edgeIn.tx, edgeIn.ty)
  /\ UNCHANGED edgeIn

\* --------------------------------------------------------------- edge layer
\* The node elements #n-ipm, #n-client, #n-ca, #n-access, #n-team, #n-employee,
\* #n-meeting, #n-fac, numbered in the order of the style sheet.
DiagramNodes == DOMAIN NodeLeftPct

\* const arrows, lines 244-254: [fromId, toId, label].
arrows ==
  <<[from |-> 1, to |-> 2, label |-> "creates"],
    [from |-> 1, to |-> 4, label |-> "requests access"],
    [from |-> 2, to |-> 3, label |-> "has"],
    [from |-> 2, to |-> 5, label |-> "contains"],
    [from |-> 3, to |-> 6, label |-> "manages"],
    [from |-> 3, to |-> 5, label |-> "manages"],
    [from |-> 5, to |-> 7, label |-> "has"],
    [from |-> 6, to |-> 8, label |-> "can be"],
    [from |-> 8, to |-> 7, label |-> "creates"]>>

\* getCenter(el), lines 256-265, for node n under layout lay: the diagram is
\* lay.w wide and a node is 2 * lay.hh high (its content decides the height).
GetCenter(n, lay) ==
  [x |-> (NodeLeftPct[n] * lay.w) \div 100 + NodeMinWidth \div 2,
   y |-> NodeTopPx[n] + lay.hh,
   w |-> NodeMinWidth,
   h |-> 2 * lay.hh]

\* The g.arrow-g element of one arrow, lines 290-315: the line from border
\* point to border point and, for a label that is not empty, the text.
ArrowGroup(a, lay) ==
  LET from == GetCenter(a.from, lay)
      to == GetCenter(a.to, lay)
      start == EdgePoint(from.x, from.y, from.w, from.h, to.x, to.y)
      end == EdgePoint(to.x, to.y, to.w, to.h, from.x, from.y)
      xd == start.x.d * end.x.d
      yd == start.y.d * end.y.d
  IN [line |-> [x1 |-> start.x, y1 |-> start.y, x2 |-> end.x, y2 |-> end.y],
      text |-> IF a.label # ""
               THEN <<[x |-> Frac(start.x.n * end.x.d + end.x.n * start.x.d, 2 * xd),
                       y |-> Frac(start.y.n * end.y.d + end.y.n * start.y.d
                                    - LabelRaise * 2 * yd, 2 * yd),
                       textContent |-> a.label]>>
               ELSE <<>>]

\* The groups drawArrows appends, lines 285-316: one per arrow whose two
\* elements exist, in the order of the array.
NewGroups(d, lay) ==
  LET drawn == SelectSeq(d.arrows, LAMBDA a : a.from \in d.nodes /\ a.to \in d.nodes)
  IN [k \in DOMAIN drawn |-> ArrowGroup(drawn[k], lay)]

\* drawArrows without line 283: the old groups stay.
DrawArrowsNoClear(svg, d, lay) == svg \o NewGroups(d, lay)

\* drawArrows(), lines 280-317: every g.arrow-g of the svg is removed, then the
\* groups are appended.
DrawArrows(svg, d, lay) == SelectSeq(svg, LAMBDA g : FALSE) \o NewGroups(d, lay)

Layouts ==
  {[w |-> GridUnit * k, hh |-> hh] : k \in {10, 20, MaxGridW}, hh \in {GridUnit \div 2, GridUnit}}

\* Before the script's last statements run. The document has all the nodes or
\* lacks #n-ipm, #n-team or #n-fac, and declares the arrows of lines 244-254
\* or these with a parallel and an unlabelled arrow more.
DrawInit ==
  /\ diagram \in
       {[nodes |-> ns, arrows |-> as] :
          ns \in {DiagramNodes \ gone : gone \in {{}, {1}, {5}, {8}}},
          as \in {arrows, arrows \o <<[from |-> 1, to |-> 2, label |-> "owns"],
                                      [from |-> 2, to |-> 1, label |-> ""]>>}}
  /\ layout \in Layouts
  /\ layer = <<>>
  /\ settle = 0
  /\ drawHist = [redraws |-> 0, resizes |-> 0, scheduled |-> 0, fired |-> 0, at |-> layout]

Redrawn(h, lay) == [h EXCEPT !.redraws = Min(@ + 1, MaxResizes + 3), !.at = lay]

\* Lines 376-379: the initial draw, the resize listener, the settle timer.
Load ==
  /\ drawHist.scheduled = 0
  /\ layer' = DrawArrows(layer, diagram, layout)
  /\ settle' = settle + 1
  /\ drawHist' = [Redrawn(drawHist, layout) EXCEPT !.scheduled = 1]
  /\ UNCHANGED <<diagram, layout>>

\* The window is resized to width w: the 'resize' listener of line 377 runs.
Resize(w) ==
  /\ drawHist.scheduled > 0
  /\ drawHist.resizes < MaxResizes
  /\ w # layout.w
  /\ layout' = [layout EXCEPT !.w = w]
  /\ layer' = DrawArrows(layer, diagram, layout')
  /\ drawHist' = [Redrawn(drawHist, layout') EXCEPT !.resizes = @ + 1]
  /\ UNCHANGED <<diagram, settle>>

\* The layout settles (fonts, content): the nodes change size, no event.
Reflow(hh) ==
  /\ hh # layout.hh
  /\ layout' = [layout EXCEPT !.hh = hh]
  /\ UNCHANGED <<diagram, layer, settle, drawHist>>

\* A settle timer that is an interval: it stays pending after it has run.
SettleFireRearm ==
  /\ settle > 0
  /\ settle' = settle
  /\ layer' = DrawArrows(layer, diagram, layout)
  /\ drawHist' = [Redrawn(drawHist, layout) EXCEPT !.fired = Min(@ + 1, 2),
                                                   !.scheduled = Min(@ + 1, 2)]
  /\ UNCHANGED <<diagram, layout>>

\* The callback of setTimeout(drawArrows, 200), line 379, runs.
SettleFire ==
  /\ settle > 0
  /\ settle' = settle - 1
  /\ layer' = DrawArrows(layer, diagram, layout)
  /\ drawHist' = [Redrawn(drawHist, layout) EXCEPT !.fired = Min(@ + 1, 2)]
  /\ UNCHANGED <<diagram, layout>>

\* ---------------------------------------------------------- route generator
Ids == 1..MaxIds
Titles == {"t1", "t2"}
NoRecord == [id |-> 0, title |-> "none"]
CatalogIds(cat) == {cat[i].id : i \in DOMAIN cat}

\* data.endpoints.get_endpoint_by_id: the catalog's record with this id, or None.
get_endpoint_by_id(cat, id) ==
  IF id \in CatalogIds(cat)
  THEN cat[CHOOSE i \in DOMAIN cat : cat[i].id = id /\ \A j \in 1..(i - 1) : cat[j].id # id]
  ELSE NoRecord

\* _make_page_fn(endpoint_id): the closure holds the id it was made with.
MakePageFn(endpoint_id) == [endpoint_id |-> endpoint_id]

\* st.Page(fn, title=ep["title"], url_path="ep-<id>")
Page(fn, ep) == [fn |-> fn, title |-> ep.title, url_path |-> <<"ep-", ep.id>>]

\* build_endpoint_pages with every closure bound to the loop variable, which
\* holds the last record once the pages are invoked.
BuildEndpointPagesLate(cat) ==
  LET ps == [i \in DOMAIN cat |-> Page(MakePageFn(cat[Len(cat)].id), cat[i])]
      last(id) == CHOOSE i \in DOMAIN cat : cat[i].id = id /\ \A j \in DOMAIN cat : cat[j].id = id => j <= i
  IN [pages |-> ps, by_id |-> [id \in CatalogIds(cat) |-> ps[last(id)]]]

\* build_endpoint_pages(), lines 24-40.
BuildEndpointPages(cat) ==
  LET ps == [i \in DOMAIN cat |-> Page(MakePageFn(cat[i].id), cat[i])]
      last(id) == CHOOSE i \in DOMAIN cat : cat[i].id = id /\ \A j \in DOMAIN cat : cat[j].id = id => j <= i
  IN [pages |-> ps, by_id |-> [id \in CatalogIds(cat) |-> ps[last(id)]]]

\* render_endpoint_detail(ep): renders ep; subscripting None raises.
RenderEndpointDetail(ep) ==
  [renderCalled |-> TRUE, rendered |-> ep, raised |-> (ep = NoRecord)]

\* _page() without st.stop(): the run goes on to render_endpoint_detail(None).
RunPageNoStop(p, cat) ==
  LET ep == get_endpoint_by_id(cat, p.fn.endpoint_id)
      r == RenderEndpointDetail(ep)
  IN [route |-> p.url_path, error |-> (ep = NoRecord), stopped |-> FALSE,
      renderCalled |-> r.renderCalled, rendered |-> r.rendered, raised |-> r.raised]

\* _page() rendering the record as it was when the page was built.
RunPageSnapshot(p, cat) ==
  LET ep == [id |-> p.fn.endpoint_id, title |-> p.title]
      r == RenderEndpointDetail(ep)
  IN [route |-> p.url_path, error |-> FALSE, stopped |-> FALSE,
      renderCalled |-> r.renderCalled, rendered |-> r.rendered, raised |-> r.raised]

\* The page function _page(), lines 14-19, run for the page p against the
\* catalog as it is now. st.stop() ends the page's run.
RunPage(p, cat) ==
  LET ep == get_endpoint_by_id(cat, p.fn.endpoint_id)
      r == RenderEndpointDetail(ep)
  IN IF ep = NoRecord
     THEN [route |-> p.url_path, error |-> TRUE, stopped |-> TRUE,
           renderCalled |-> FALSE, rendered |-> NoRecord, raised |-> FALSE]
     ELSE [route |-> p.url_path, error |-> FALSE, stopped |-> FALSE,
           renderCalled |-> r.renderCalled, rendered |-> r.rendered, raised |-> r.raised]

\* st.session_state before the first script run has stored the map.
NoSession == <<>>
NoRequest == [via |-> "none", id |-> 0]

\* The st.Page objects of a script run are new objects. Only the objects of
\* the latest run are referenced (pages, by_id and the session's map all hold
\* them), so two generations tell a new object from every live one.
NewGen(s) == IF s = NoSession THEN 1 ELSE 3 - s.gen

\* The object the session's map holds for id: its identity and its value.
HandleOf(s, id) == [obj |-> <<s.gen, id>>, page |-> s.map[id]]

\* A run of a page that is no detail page (the listing stays, or the default
\* page is shown for a path that no page is registered under).
NoDetail ==
  [route |-> <<"", 0>>, error |-> FALSE, stopped |-> FALSE,
   renderCalled |-> FALSE, rendered |-> NoRecord, raised |-> FALSE]

RouteInit ==
  /\ catalog = [i \in Ids |-> [id |-> i, title |-> "t1"]]
  /\ pages = <<>>
  /\ by_id = <<>>
  /\ pc = "start"
  /\ out = <<>>
  /\ session_state = NoSession
  /\ req = NoRequest

\* app.main() building the pages only when the session holds no map yet.
MainCached ==
  /\ pc = "start"
  /\ pages' = IF session_state = NoSession THEN BuildEndpointPages(catalog).pages ELSE pages
  /\ by_id' = IF session_state = NoSession THEN BuildEndpointPages(catalog).by_id ELSE by_id
  /\ session_state' = IF session_state = NoSession
                      THEN [gen |-> NewGen(session_state), map |-> BuildEndpointPages(catalog).by_id]
                      ELSE session_state
  /\ pc' = "nav"
  /\ UNCHANGED <<catalog, out, req>>

\* app.main(), lines 28-32: a script run builds the pages and stores the map.
Main ==
  /\ pc = "start"
  /\ pages' = BuildEndpointPages(catalog).pages
  /\ by_id' = BuildEndpointPages(catalog).by_id
  /\ session_state' = [gen |-> NewGen(session_state), map |-> BuildEndpointPages(catalog).by_id]
  /\ pc' = "nav"
  /\ UNCHANGED <<catalog, out, req>>

\* app.main(), lines 48-49: nav.run() invokes the page the viewer is on.
NavRun(i) ==
  /\ pc = "nav"
  /\ i \in DOMAIN pages
  /\ out' = RunPage(pages[i], catalog)
  /\ req' = [via |-> "direct", id |-> 0]
  /\ pc' = "start"
  /\ UNCHANGED <<catalog, pages, by_id, session_state>>

\* The position of the record with this id in the catalog.
PositionOf(cat, id) == CHOOSE i \in DOMAIN cat : cat[i].id = id

\* "View details" looking the page up by the record's position in the catalog.
ViewDetailsByPosition(id) ==
  /\ pc = "nav"
  /\ id \in CatalogIds(catalog)
  /\ out' = IF PositionOf(catalog, id) \in DOMAIN pages
            THEN RunPage(pages[PositionOf(catalog, id)], catalog)
            ELSE NoDetail
  /\ req' = [via |-> "listing", id |-> id]
  /\ pc' = "start"
  /\ UNCHANGED <<catalog, pages, by_id, session_state>>

\* all_endpoints.py, lines 152-161: the listing runs under nav.run(); the
\* "View details" button of the record with this id switches to the page the
\* session's map holds for the id, if it holds one.
ViewDetails(id) ==
  /\ pc = "nav"
  /\ id \in CatalogIds(catalog)
  /\ LET page_map == IF session_state = NoSession THEN <<>> ELSE session_state.map
     IN out' = IF id \in DOMAIN page_map THEN RunPage(page_map[id], catalog) ELSE NoDetail
  /\ req' = [via |-> "listing", id |-> id]
  /\ pc' = "start"
  /\ UNCHANGED <<catalog, pages, by_id, session_state>>

\* _build_actor_popup_html, line 27: the link of a record in a popup.
PopupHref(id) == <<"ep-", id>>

\* A popup link is followed: the path is resolved among the url_path of the
\* pages given to st.navigation, and the page registered under it runs.
PopupLink(id) ==
  /\ pc = "nav"
  /\ out' = IF \E i \in DOMAIN pages : pages[i].url_path = PopupHref(id)
            THEN RunPage(pages[CHOOSE i \in DOMAIN pages : pages[i].url_path = PopupHref(id)], catalog)
            ELSE NoDetail
  /\ req' = [via |-> "popup", id |-> id]
  /\ pc' = "start"
  /\ UNCHANGED <<catalog, pages, by_id, session_state>>

\* The catalog is edited under the running session (a hot reload of the data).
CatalogEdit(i, t) ==
  /\ i \in DOMAIN catalog
  /\ catalog[i].title # t
  /\ catalog' = [catalog EXCEPT ![i].title = t]
  /\ UNCHANGED <<pages, by_id, pc, out, session_state, req>>

CatalogRemove(i) ==
  /\ i \in DOMAIN catalog
  /\ catalog' = [j \in 1..(Len(catalog) - 1) |-> IF j < i THEN catalog[j] ELSE catalog[j + 1]]
  /\ UNCHANGED <<pages, by_id, pc, out, session_state, req>>

CatalogAdd(id, t) ==
  /\ id \notin CatalogIds(catalog)
  /\ catalog' = Append(catalog, [id |-> id, title |-> t])
  /\ UNCHANGED <<pages, by_id, pc, out, session_state, req>>

\* --------------------------------------------------------- schema renderer
\* Text that the code changes case of is a sequence of characters.
\* str.lower()
LowerChar(c) ==
  LET UpperLetters == <<"A", "B", "C", "D", "E", "F", "G", "H", "I", "J", "K", "L", "M",
                        "N", "O", "P", "Q", "R", "S", "T", "U", "V", "W", "X", "Y", "Z">>
      LowerLetters == <<"a", "b", "c", "d", "e", "f", "g", "h", "i", "j", "k", "l", "m",
                        "n", "o", "p", "q", "r", "s", "t", "u", "v", "w", "x", "y", "z">>
  IN IF \E i \in DOMAIN UpperLetters : UpperLetters[i] = c
     THEN LowerLetters[CHOOSE i \in DOMAIN UpperLetters : UpperLetters[i] = c]
     ELSE c
Lower(str) == [i \in DOMAIN str |-> LowerChar(str[i])]

GET == <<"G", "E", "T">>
POST == <<"P", "O", "S", "T">>

\* A record is a dict: keys holds the keys it has; the value of a key it does
\* not have is never read.
\* dict.get(key, default)
Get(ep, key, default) == IF key \in ep.keys THEN ep[key] ELSE default

\* styles.method_badge_html, lines 219-222.
method_badge_html(method) == [class |-> <<"method-">> \o Lower(method), text |-> method]

\* status_code_html with the boundaries taken one too high.
status_code_html_inclusive(code) ==
  IF code <= 300 THEN "status-2xx"
  ELSE IF code <= 500 THEN "status-4xx"
  ELSE "status-5xx"

\* styles.status_code_html, lines 225-233: the class of the badge.
status_code_html(code) ==
  IF code < 300 THEN "status-2xx"
  ELSE IF code < 500 THEN "status-4xx"
  ELSE "status-5xx"

\* One st.markdown section: its marker, whether a table follows, the rows.
Section(name, label, table, rows) ==
  [section |-> name, label |-> label, table |-> table, rows |-> rows]

\* Lines 22-28: method badge, path and title.
HeaderSection(ep) ==
  <<Section("header", ep.title, FALSE, <<method_badge_html(ep.method), ep.path>>)>>

\* Lines 31-43: the meta row, and the rule of line 45.
MetaSection(ep) ==
  LET auth == IF Get(ep, "auth", "") # ""
              THEN <<[part |-> "auth", text |-> <<ep.auth>>]>>
              ELSE <<>>
      source == <<[part |-> "source",
                   text |-> <<Get(ep, "source_file", ""), ":", Get(ep, "source_line", "")>>]>>
  IN <<Section("meta", "", FALSE, auth \o source), Section("rule", "", FALSE, <<>>)>>

\* Lines 48-51.
DescriptionSection(ep) ==
  LET desc == Get(ep, "description_long", Get(ep, "summary", ""))
  IN IF desc # "" THEN <<Section("description", "Description", FALSE, <<desc>>)>> ELSE <<>>

\* Lines 54-68, 71-85: a table of (name, type, description) rows.
FieldSection(name, label, fields) ==
  IF fields # <<>>
  THEN <<Section(name, label, TRUE,
                 [i \in DOMAIN fields |-> <<fields[i][1], fields[i][2], fields[i][3]>>])>>
  ELSE <<>>

\* Lines 92-97: item[0], item[1], item[-1] of a row that has not four fields.
BodyRaises(request_body) ==
  \E i \in DOMAIN request_body : Len(request_body[i]) # 4 /\ Len(request_body[i]) < 2
BodyRow(item) ==
  IF Len(item) = 4
  THEN <<item[1], item[2], IF item[3] THEN "Yes" ELSE "No", item[4]>>
  ELSE <<item[1], item[2], "-", item[Len(item)]>>

\* Lines 88-110, for rows that do not raise.
RequestBodySection(request_body) ==
  IF request_body # <<>>
  THEN <<Section("request_body", "Request Body", TRUE,
                 [i \in DOMAIN request_body |-> BodyRow(request_body[i])])>>
  ELSE <<>>

\* Lines 113-128.
ResponseSection(ep) ==
  LET response_fields == Get(ep, "response_fields", <<>>)
  IN IF response_fields # <<>>
     THEN <<Section("response", <<"Response", Get(ep, "response_status", 200)>>, TRUE,
                    [i \in DOMAIN response_fields |->
                       <<response_fields[i][1], response_fields[i][2], response_fields[i][3]>>])>>
     ELSE <<>>

\* status_codes is a dict: a sequence of (code, description) items in the
\* order of insertion, no code twice.
\* sorted(status_codes.items()) kept in the order of insertion.
SortedItemsUnsorted(items) == items

\* sorted(status_codes.items()), line 136: ascending by code.
RECURSIVE SortItems(_)
SortItems(S) ==
  IF S = {} THEN <<>>
  ELSE LET least == CHOOSE x \in S : \A y \in S : x[1] <= y[1]
       IN <<least>> \o SortItems(S \ {least})
SortedItems(items) == SortItems({items[i] : i \in DOMAIN items})

\* Lines 131-143.
StatusCodesSection(ep) ==
  LET status_codes == Get(ep, "status_codes", <<>>)
      sorted == SortedItems(status_codes)
  IN IF status_codes # <<>>
     THEN <<Section("status_codes", "Status Codes", TRUE,
                    [i \in DOMAIN sorted |->
                       <<sorted[i][1], status_code_html(sorted[i][1]), sorted[i][2]>>])>>
     ELSE <<>>

\* The related records, taking only the complex ones.
RelatedComplexOnly(ep, cat) ==
  SelectSeq(cat, LAMBDA e : /\ e.tag = ep.tag
                            /\ e.subcategory = ep.subcategory
                            /\ e.id # ep.id
                            /\ Get(e, "complexity", "simple") = "complex")

\* Lines 149-155: the list comprehension over ENDPOINTS.
Related(ep, cat) ==
  SelectSeq(cat, LAMBDA e : /\ e.tag = ep.tag
                            /\ e.subcategory = ep.subcategory
                            /\ e.id # ep.id)

RelatedRow(rel) == <<method_badge_html(rel.method), rel.path, rel.title>>

\* The related section shown for a record of any complexity.
RelatedSectionAlways(ep, cat) ==
  IF Related(ep, cat) # <<>>
  THEN <<Section("related", "Related Endpoints", FALSE,
                 [i \in DOMAIN Related(ep, cat) |-> RelatedRow(Related(ep, cat)[i])])>>
  ELSE <<>>

\* Lines 146-162.
RelatedSection(ep, cat) ==
  IF Get(ep, "complexity", "simple") = "complex" /\ Related(ep, cat) # <<>>
  THEN <<Section("related", "Related Endpoints", FALSE,
                 [i \in DOMAIN Related(ep, cat) |-> RelatedRow(Related(ep, cat)[i])])>>
  ELSE <<>>

\* render_endpoint_detail(ep), lines 13-162: the sections emitted, in the
\* order of emission. A request-body row that raises ends the call after the
\* section's marker; what was emitted before stays on the page.
RenderSections(ep, cat) ==
  LET request_body == Get(ep, "request_body", <<>>)
      before == HeaderSection(ep) \o MetaSection(ep) \o DescriptionSection(ep)
                  \o FieldSection("path_params", "Path Parameters", Get(ep, "path_params", <<>>))
                  \o FieldSection("query_params", "Query Parameters", Get(ep, "query_params", <<>>))
  IN IF BodyRaises(request_body)
     THEN [raised |-> TRUE,
           items |-> before \o <<Section("request_body", "Request Body", FALSE, <<>>)>>]
     ELSE [raised |-> FALSE,
           items |-> before \o RequestBodySection(request_body) \o ResponseSection(ep)
                       \o StatusCodesSection(ep) \o RelatedSection(ep, cat)]

\* ---- the records rendered
Some(v) == [has |-> TRUE, val |-> v]
Missing(v) == [has |-> FALSE, val |-> v]
OptionalKeys == {"auth", "source_file", "source_line", "summary", "description_long",
                 "path_params", "query_params", "request_body", "response_fields",
                 "response_status", "status_codes", "complexity"}
NoOptions ==
  [auth |-> Missing(""), source_file |-> Missing(""), source_line |-> Missing(""),
   summary |-> Some("sum"), description_long |-> Missing(""),
   path_params |-> Missing(<<>>), query_params |-> Missing(<<>>),
   request_body |-> Missing(<<>>), response_fields |-> Missing(<<>>),
   response_status |-> Missing(200), status_codes |-> Missing(<<>>),
   complexity |-> Missing("simple")]

\* An EndpointRecord with the optional keys that o gives.
MakeRecord(id, title, tag, sub, o) ==
  [keys |-> {"id", "method", "path", "title", "tag", "subcategory"}
              \cup {k \in OptionalKeys : o[k].has},
   id |-> id, method |-> GET, path |-> <<"/r/", id>>, title |-> title,
   tag |-> tag, subcategory |-> sub,
   auth |-> o.auth.val, source_file |-> o.source_file.val, source_line |-> o.source_line.val,
   summary |-> o.summary.val, description_long |-> o.description_long.val,
   path_params |-> o.path_params.val, query_params |-> o.query_params.val,
   request_body |-> o.request_body.val, response_fields |-> o.response_fields.val,
   response_status |-> o.response_status.val, status_codes |-> o.status_codes.val,
   complexity |-> o.complexity.val]

\* The records of the related-endpoints example: A, B, C share tag and
\* subcategory, D has another subcategory.
ExampleCatalog ==
  <<MakeRecord(1, "A", "Meetings", "Analysis", [NoOptions EXCEPT !.complexity = Some("complex")]),
    MakeRecord(2, "B", "Meetings", "Analysis", [NoOptions EXCEPT !.complexity = Some("simple")]),
    MakeRecord(3, "C", "Meetings", "Analysis", [NoOptions EXCEPT !.complexity = Some("complex")]),
    MakeRecord(4, "D", "Meetings", "Recording", [NoOptions EXCEPT !.complexity = Some("complex")])>>

Names == <<"n1", "n2", "n3", "n4", "n5", "n6", "n7", "n8">>
Fields(n) == [i \in 1..n |-> <<Names[i], "string", "about">>]
\* The status_codes mappings: codes in the order of insertion, none twice.
StatusItems ==
  LET codes == {q \in UNION {[1..k -> {201, 404}] : k \in 0..MaxRows} :
                  \A i, j \in DOMAIN q : i # j => q[i] # q[j]}
  IN {[i \in DOMAIN q |-> <<q[i], "about">>] : q \in codes}

\* A request-body row of n fields; a row of four fields holds the flag.
BodyItem(n, required) ==
  IF n = 4 THEN <<Names[1], Names[2], required, Names[4]>>
  ELSE [i \in 1..n |-> Names[i]]
Bodies ==
  UNION {[1..k -> {BodyItem(n, r) : n \in 0..MaxRowLen, r \in BOOLEAN}] : k \in 0..MaxRows}

\* Records over the presence and emptiness of every optional field.
SectionRecords ==
  {MakeRecord(1, "A", "Meetings", "Analysis",
     [auth |-> a, source_file |-> src[1], source_line |-> src[2],
      summary |-> sm, description_long |-> d,
      path_params |-> pp, query_params |-> qp, request_body |-> rb,
      response_fields |-> rf[1], response_status |-> rf[2], status_codes |-> sc,
      complexity |-> Some("complex")]) :
     a \in {Missing(""), Some(""), Some("Bearer")},
     src \in {<<Missing(""), Missing("")>>, <<Some("app.py"), Missing("")>>, <<Some("app.py"), Some("42")>>},
     sm \in {Missing(""), Some("sum")},
     d \in {Missing(""), Some(""), Some("long")},
     pp \in {Missing(<<>>), Some(Fields(MaxRows))},
     qp \in {Some(<<>>), Some(Fields(1))},
     rb \in {Missing(<<>>), Some(<<BodyItem(3, FALSE), BodyItem(4, TRUE)>>), Some(<<BodyItem(1, FALSE)>>)},
     rf \in {<<Missing(<<>>), Missing(200)>>, <<Some(Fields(1)), Missing(200)>>,
             <<Some(Fields(1)), Some(201)>>},
     sc \in {Missing(<<>>)} \cup {Some(q) : q \in StatusItems}}

\* Records over the request-body rows of every length.
BodyRecords ==
  {MakeRecord(1, "A", "Meetings", "Analysis",
     [NoOptions EXCEPT !.request_body = Some(rb), !.response_fields = Some(Fields(1))]) :
     rb \in Bodies}

\* Catalogs over tag, subcategory and complexity, and the record rendered.
CatRecords(i) ==
  {MakeRecord(i, Names[i], g[1], g[2], [NoOptions EXCEPT !.complexity = Some(cx)]) :
     g \in {<<"Meetings", "Analysis">>, <<"Meetings", "Recording">>, <<"Users", "Analysis">>},
     cx \in {"simple", "complex"}}
RECURSIVE CatalogsOfLen(_)
CatalogsOfLen(n) ==
  IF n = 0 THEN {<<>>}
  ELSE {Append(cat, r) : cat \in CatalogsOfLen(n - 1), r \in CatRecords(n)}

RenderInputs ==
  {[ep |-> ep, ENDPOINTS |-> ExampleCatalog] : ep \in SectionRecords \cup BodyRecords}
RelatedInputs ==
  {[ep |-> ExampleCatalog[i], ENDPOINTS |-> ExampleCatalog] : i \in DOMAIN ExampleCatalog}
    \cup {[ep |-> [ExampleCatalog[i] EXCEPT !.keys = @ \ {"complexity"}],
            ENDPOINTS |-> ExampleCatalog] : i \in DOMAIN ExampleCatalog}
    \cup {[ep |-> cat[i], ENDPOINTS |-> cat] : cat \in CatalogsOfLen(MaxCat), i \in 1..MaxCat}

\* A page run calls render_endpoint_detail(ep).
RenderDetail ==
  /\ renderOut = <<>>
  /\ renderOut' = RenderSections(renderIn.ep, renderIn.ENDPOINTS)
  /\ UNCHANGED renderIn

\* A renderer that remembers the records it has rendered and emits nothing
\* for a record it is given again.
RenderAgainOnce ==
  /\ Len(renderLog) < MaxRenders
  /\ renderLog' = Append(renderLog,
                         IF renderLog = <<>>
                         THEN RenderSections(renderIn.ep, renderIn.ENDPOINTS)
                         ELSE [raised |-> FALSE, items |-> <<>>])
  /\ UNCHANGED <<renderIn, renderOut>>

\* One more script run of the page: render_endpoint_detail(ep) is called with
\* the same record while ENDPOINTS is as it was.
RenderAgain ==
  /\ Len(renderLog) < MaxRenders
  /\ renderLog' = Append(renderLog, RenderSections(renderIn.ep, renderIn.ENDPOINTS))
  /\ UNCHANGED <<renderIn, renderOut>>

\* ------------------------------------------------------------ status badge
\* A status row is built: status_code_html(code).
ClassifyStatus ==
  /\ badge = ""
  /\ badge' = status_code_html(statusCode)
  /\ UNCHANGED <<statusCode, searchIn, listed>>

\* ----------------------------------------------------------------- listing
\* str.strip() of a text whose only whitespace is the blank.
RECURSIVE Strip(_)
Strip(str) ==
  IF str # <<>> /\ Head(str) = " " THEN Strip(Tail(str))
  ELSE IF str # <<>> /\ str[Len(str)] = " " THEN Strip(SubSeq(str, 1, Len(str) - 1))
  ELSE str

\* needle in hay
Contains(hay, needle) ==
  \E i \in 0..(Len(hay) - Len(needle)) : SubSeq(hay, i + 1, i + Len(needle)) = needle

ALL == <<"A", "l", "l">>

\* _matches comparing the texts as they are written.
MatchesCaseSensitive(ep, method_filter, search) ==
  LET search_lower == Strip(search)
      haystack == ep.path \o <<" ">> \o ep.title \o <<" ">> \o Get(ep, "summary", <<>>)
                    \o <<" ">> \o Get(ep, "description_long", <<>>)
  IN IF method_filter # ALL /\ ep.method # method_filter THEN FALSE
     ELSE IF search_lower # <<>> THEN Contains(haystack, search_lower)
     ELSE TRUE

\* all_endpoints.py, lines 75-84: search_lower and _matches(ep).
Matches(ep, method_filter, search) ==
  LET search_lower == Lower(Strip(search))
      haystack == Lower(ep.path \o <<" ">> \o ep.title \o <<" ">> \o Get(ep, "summary", <<>>)
                          \o <<" ">> \o Get(ep, "description_long", <<>>))
  IN IF method_filter # ALL /\ ep.method # method_filter THEN FALSE
     ELSE IF search_lower # <<>> THEN Contains(haystack, search_lower)
     ELSE TRUE

TAG_ORDER == <<"Meetings", "Users">>

\* all_endpoints.py, lines 87-161: the ids of the cards in the order shown:
\* by tag (TAG_ORDER first, then the other tags as first seen), then by
\* subcategory as first seen within the tag, then in the order of ENDPOINTS.
\* An empty result shows the notice and stops the page.
Listing(cat, method_filter, search) ==
  LET filtered == SelectSeq(cat, LAMBDA ep : Matches(ep, method_filter, search))
      n == Len(filtered)
      first(P(_)) == CHOOSE i \in 1..n : P(filtered[i]) /\ \A j \in 1..(i - 1) : ~P(filtered[j])
      tagRank(ep) ==
        IF \E k \in DOMAIN TAG_ORDER : TAG_ORDER[k] = ep.tag
        THEN CHOOSE k \in DOMAIN TAG_ORDER : TAG_ORDER[k] = ep.tag
        ELSE Len(TAG_ORDER) + first(LAMBDA e : e.tag = ep.tag)
      subRank(ep) ==
        first(LAMBDA e : e.tag = ep.tag /\ Get(e, "subcategory", "General") = Get(ep, "subcategory", "General"))
      before(i, j) ==
        LET a == filtered[i]
            b == filtered[j]
        IN \/ tagRank(a) < tagRank(b)
           \/ tagRank(a) = tagRank(b) /\ subRank(a) < subRank(b)
           \/ tagRank(a) = tagRank(b) /\ subRank(a) = subRank(b) /\ i < j
      place(i) == 1 + Cardinality({j \in 1..n : before(j, i)})
  IN [stopped |-> (n = 0),
      cards |-> [k \in 1..n |-> filtered[CHOOSE i \in 1..n : place(i) = k].id]]

\* ---- the records listed
SearchRecord(id, method, path, title, summary, description_long, tag, sub) ==
  [keys |-> {"id", "method", "path", "title", "tag", "subcategory"}
              \cup (IF summary.has THEN {"summary"} ELSE {})
              \cup (IF description_long.has THEN {"description_long"} ELSE {}),
   id |-> id, method |-> method, path |-> path, title |-> title,
   summary |-> summary.val, description_long |-> description_long.val,
   tag |-> tag, subcategory |-> sub]

MEETING == <<"m", "e", "e", "t", "i", "n", "g">>

\* The records of the search example: a GET and two POST records whose text
\* holds "meeting" in some case, and a POST record whose text does not.
SearchExample ==
  <<SearchRecord(1, GET, <<"/", "u">>, <<"M", "e", "e", "t", "i", "n", "g", "s">>,
                 Some(<<"a", "l", "l">>), Missing(<<>>), "Users", "Accounts"),
    SearchRecord(2, POST, <<"/", "m">>, <<"n", "e", "w">>,
                 Some(<<"a", " ">> \o MEETING), Missing(<<>>), "Meetings", "Analysis"),
    SearchRecord(3, POST, <<"/", "x">>, <<"o", "t", "h", "e", "r">>,
                 Some(<<"m", "e", "e", "t">>), Some(<<"i", "n", "g">>), "Meetings", "Analysis"),
    SearchRecord(4, POST, <<"/", "b">>, <<"p", "a", "y">>,
                 Missing(<<>>), Some(<<"M", "E", "E", "T", "I", "N", "G">>), "Billing", "Invoices")>>

SearchInputs ==
  {[ENDPOINTS |-> <<SearchRecord(1, mt, p, t, sm, d, "Meetings", "Analysis")>>,
    search |-> q, method_filter |-> f] :
     mt \in {GET, POST}, p \in {<<"m">>, <<"M">>, <<" ">>},
     t \in {<<>>, <<"m">>, <<"M">>, <<" ">>},
     sm \in {Missing(<<>>), Some(<<"m">>)}, d \in {Missing(<<>>), Some(<<"M">>)},
     q \in UNION {[1..k -> {"m", "M", " "}] : k \in 0..MaxQuery}, f \in {ALL, GET, POST}}
    \cup {[ENDPOINTS |-> SearchExample, search |-> q, method_filter |-> f] :
            q \in {<<>>, MEETING, <<" ", "M", "e", "e", "t", " ">>, <<"z">>}, f \in {ALL, GET, POST}}

\* A run of the listing page with the text and the filter of the widgets.
ListEndpoints ==
  /\ listed = <<>>
  /\ listed' = Listing(searchIn.ENDPOINTS, searchIn.method_filter, searchIn.search)
  /\ UNCHANGED <<statusCode, badge, searchIn>>

\* ------------------------------------------------------------ diagram build
\* The actors and the entities build_diagram_html builds a popup for, in the
\* order of lines 69-76.
ACTORS == <<"IPM Admin", "Client Admin", "Facilitator">>
ENTITIES == <<"Client", "Team", "Employee", "Meeting", "Access Request">>

\* _build_actor_popup_html walking endpoint_ids instead of ENDPOINTS.
build_actor_popup_html_by_index(ENDPOINTS, actor, endpoint_ids) ==
  LET found == SelectSeq(endpoint_ids,
                         LAMBDA id : \E i \in DOMAIN ENDPOINTS : ENDPOINTS[i].id = id)
      eps == [k \in DOMAIN found |->
                ENDPOINTS[CHOOSE i \in DOMAIN ENDPOINTS : ENDPOINTS[i].id = found[k]]]
      sub(e) == Get(e, "subcategory", "General")
      first == {i \in DOMAIN eps : \A j \in 1..(i - 1) : sub(eps[j]) # sub(eps[i])}
      nth(k) == CHOOSE i \in first : Cardinality({j \in first : j <= i}) = k
      link(e) == [href |-> <<"/">> \o PopupHref(e.id), m |-> e.method,
                  mcls |-> <<"method-">> \o Lower(e.method), path |-> e.path]
      group(s) == LET sub_eps == SelectSeq(eps, LAMBDA e : sub(e) = s)
                  IN [sub |-> s, links |-> [i \in DOMAIN sub_eps |-> link(sub_eps[i])]]
  IN [title |-> <<actor, " Endpoints">>,
      body |-> [k \in 1..Cardinality(first) |-> group(sub(eps[nth(k)]))]]

\* _build_actor_popup_html(actor, endpoint_ids), lines 10-37: the records of
\* ENDPOINTS whose id is in endpoint_ids, grouped by subcategory in a dict
\* (insertion order), one popup-group per key with one link per record.
build_actor_popup_html(ENDPOINTS, actor, endpoint_ids) ==
  LET ids == {endpoint_ids[i] : i \in DOMAIN endpoint_ids}
      eps == SelectSeq(ENDPOINTS, LAMBDA e : e.id \in ids)
      sub(e) == Get(e, "subcategory", "General")
      first == {i \in DOMAIN eps : \A j \in 1..(i - 1) : sub(eps[j]) # sub(eps[i])}
      nth(k) == CHOOSE i \in first : Cardinality({j \in first : j <= i}) = k
      link(e) == [href |-> <<"/">> \o PopupHref(e.id), m |-> e.method,
                  mcls |-> <<"method-">> \o Lower(e.method), path |-> e.path]
      group(s) == LET sub_eps == SelectSeq(eps, LAMBDA e : sub(e) = s)
                  IN [sub |-> s, links |-> [i \in DOMAIN sub_eps |-> link(sub_eps[i])]]
  IN [title |-> <<actor, " Endpoints">>,
      body |-> [k \in 1..Cardinality(first) |-> group(sub(eps[nth(k)]))]]

\* _build_entity_popup_html(entity), lines 40-62: ENTITY_FIELDS.get(entity, {}),
\* its path and one table row per field.
build_entity_popup_html(ENTITY_FIELDS, entity) ==
  LET info == IF entity \in DOMAIN ENTITY_FIELDS THEN ENTITY_FIELDS[entity]
              ELSE [keys |-> {}]
      fields == Get(info, "fields", <<>>)
  IN [title |-> entity,
      path |-> Get(info, "firestore_path", ""),
      rows |-> [i \in DOMAIN fields |-> <<fields[i][1], fields[i][2], fields[i][3]>>]]

\* build_diagram_html(), lines 65-76: ACTOR_ENDPOINTS[actor] raises KeyError
\* for an actor the index does not have, and nothing is returned.
build_diagram_html(d) ==
  IF \E i \in DOMAIN ACTORS : ACTORS[i] \notin DOMAIN d.ACTOR_ENDPOINTS
  THEN [raised |-> TRUE, actors |-> <<>>, entities |-> <<>>]
  ELSE [raised |-> FALSE,
        actors |-> [i \in DOMAIN ACTORS |->
                      build_actor_popup_html(d.ENDPOINTS, ACTORS[i],
                                             d.ACTOR_ENDPOINTS[ACTORS[i]])],
        entities |-> [i \in DOMAIN ENTITIES |->
                        build_entity_popup_html(d.ENTITY_FIELDS, ENTITIES[i])]]

\* The data the build reads. Catalogs hold the records 1..MaxEp in rising or
\* falling order, all of them or all but one; record 2 has no subcategory. The
\* index gives "IPM Admin" any list of up to MaxEp ids, one of which is in no
\* catalog, and may lack an actor; the schema may lack "Team" and holds an
\* empty entry for "Meeting" then.
BuildInputs ==
  LET Record(id) ==
        [keys |-> {"id", "method", "path"} \cup (IF id = 2 THEN {} ELSE {"subcategory"}),
         id |-> id, method |-> IF id % 2 = 1 THEN GET ELSE POST, path |-> <<"/r/", id>>,
         subcategory |-> IF id % 2 = 1 THEN "Meetings" ELSE "Users"]
      rising == [i \in 1..MaxEp |-> Record(i)]
      falling == [i \in 1..MaxEp |-> Record(MaxEp + 1 - i)]
      Catalogs == {rising, falling}
                    \cup {SelectSeq(c, LAMBDA e : e.id # n) : c \in {rising, falling},
                                                              n \in 1..MaxEp}
      IdLists == UNION {[1..n -> 1..(MaxEp + 1)] : n \in 0..MaxEp}
      All == {ACTORS[i] : i \in DOMAIN ACTORS}
      Indexes == {[a \in A |-> IF a = "IPM Admin" THEN l ELSE <<1>>] :
                    l \in IdLists, A \in {All, All \ {"Client Admin"}, All \ {"Facilitator"}}}
                   \cup {[a \in All \ {"IPM Admin"} |-> <<1>>]}
      Info(e) == [keys |-> {"firestore_path", "fields"}, firestore_path |-> <<"path of ", e>>,
                  fields |-> <<<<"n1", "string", "about">>, <<"n2", "number", "about">>>>]
      Schemas == {[e \in {ENTITIES[i] : i \in DOMAIN ENTITIES} |-> Info(e)],
                  [e \in {"Client", "Employee", "Meeting", "Access Request"} |->
                     IF e = "Meeting" THEN [keys |-> {}] ELSE Info(e)]}
  IN {[ENDPOINTS |-> c, ACTOR_ENDPOINTS |-> x, ENTITY_FIELDS |-> f] :
        c \in Catalogs, x \in Indexes, f \in Schemas}

\* The home page calls build_diagram_html().
BuildDiagram ==
  /\ built = <<>>
  /\ built' = build_diagram_html(buildIn)
  /\ UNCHANGED buildIn

\* ------------------------------------------------------- specifications
ListIdle == statusCode = 0 /\ badge = "" /\ searchIn = <<>> /\ listed = <<>>
PlaceIdle == geom = [dr |-> DiagramRect, nr |-> NodeRect(1)] /\ placed = NoPos
EdgeIdle == edgeIn = <<>> /\ edgeOut = <<>>
RouteIdle ==
  /\ catalog = <<>> /\ pages = <<>> /\ by_id = <<>> /\ pc = "start" /\ out = <<>>
  /\ session_state = <<>> /\ req = [via |-> "none", id |-> 0]

RenderIdle == renderIn = <<>> /\ renderOut = <<>>
DrawIdle ==
  /\ diagram = <<>> /\ layout = <<>> /\ layer = <<>> /\ settle = 0 /\ drawHist = <<>>
BuildIdle == buildIn = <<>> /\ built = <<>>
\* The parts a specification does not exercise stay as they are.
RestIdle == renderLog = <<>> /\ DrawIdle /\ BuildIdle

\* A step of the popup logic leaves the other parts alone.
HoverFrame ==
  UNCHANGED <<placeVars, edgeVars, routeVars, renderVars, listVars, renderLog, drawVars,
              buildVars>>

Init == HoverInit /\ PlaceIdle /\ EdgeIdle /\ RouteIdle /\ RenderIdle /\ ListIdle /\ RestIdle

Next ==
  \/ \E n \in Nodes : MouseEnterNode(n) /\ HoverFrame
  \/ \E n \in Nodes : MouseLeaveNode(n) /\ HoverFrame
  \/ \E n \in Nodes : MouseEnterPopup(n) /\ HoverFrame
  \/ \E n \in Nodes : MouseLeavePopup(n) /\ HoverFrame
  \/ TimerFire /\ HoverFrame
  \/ Tick /\ HoverFrame

Spec == Init /\ [][Next]_vars

\* The event loop runs a due callback, and time passes.
FairSpec == Spec /\ WF_vars(TimerFire /\ HoverFrame) /\ WF_vars(Tick /\ HoverFrame)

\* Popup placement over the geometries.
InitPlace ==
  HoverInit /\ PlaceInit /\ EdgeIdle /\ RouteIdle /\ RenderIdle /\ ListIdle /\ RestIdle
NextPlace ==
  PlacePopup /\ UNCHANGED <<hoverVars, edgeVars, routeVars, renderVars, listVars, renderLog,
                            drawVars, buildVars>>
SpecPlace == InitPlace /\ [][NextPlace]_vars

\* edgePoint over its inputs.
InitEdge ==
  HoverInit /\ PlaceIdle /\ EdgeInit /\ RouteIdle /\ RenderIdle /\ ListIdle /\ RestIdle
NextEdge ==
  ComputeEdgePoint /\ UNCHANGED <<hoverVars, placeVars, routeVars, renderVars, listVars,
                                  renderLog, drawVars, buildVars>>
SpecEdge == InitEdge /\ [][NextEdge]_vars

\* The route generator: script runs, page invocations and catalog edits.
RouteFrame ==
  UNCHANGED <<hoverVars, placeVars, edgeVars, renderVars, listVars, renderLog, drawVars,
              buildVars>>
InitRoute ==
  HoverInit /\ PlaceIdle /\ EdgeIdle /\ RouteInit /\ RenderIdle /\ ListIdle /\ RestIdle
NextRoute ==
  \/ Main /\ RouteFrame
  \/ \E i \in Ids : NavRun(i) /\ RouteFrame
  \/ \E i \in Ids, t \in Titles : CatalogEdit(i, t) /\ RouteFrame
  \/ \E i \in Ids : CatalogRemove(i) /\ RouteFrame
  \/ \E id \in Ids, t \in Titles : CatalogAdd(id, t) /\ RouteFrame
SpecRoute == InitRoute /\ [][NextRoute]_vars

\* Navigation within a session: script runs, the listing's buttons, popup
\* links, and records coming to and going from the catalog.
NextNav ==
  \/ Main /\ RouteFrame
  \/ \E i \in Ids : NavRun(i) /\ RouteFrame
  \/ \E id \in Ids : ViewDetails(id) /\ RouteFrame
  \/ \E id \in Ids : PopupLink(id) /\ RouteFrame
  \/ \E i \in Ids : CatalogRemove(i) /\ RouteFrame
  \/ \E id \in Ids : CatalogAdd(id, "t1") /\ RouteFrame
SpecNav == InitRoute /\ [][NextNav]_vars

\* render_endpoint_detail over the records.
InitRender ==
  /\ HoverInit /\ PlaceIdle /\ EdgeIdle /\ RouteIdle /\ ListIdle /\ RestIdle
  /\ renderIn \in RenderInputs /\ renderOut = <<>>
NextRender ==
  RenderDetail /\ UNCHANGED <<hoverVars, placeVars, edgeVars, routeVars, listVars, renderLog,
                              drawVars, buildVars>>
SpecRender == InitRender /\ [][NextRender]_vars

\* The edge layer: load, resizes, the settle timer, and the layout settling.
DrawFrame ==
  UNCHANGED <<hoverVars, placeVars, edgeVars, routeVars, renderVars, listVars, renderLog,
              buildVars>>
InitDraw ==
  /\ HoverInit /\ PlaceIdle /\ EdgeIdle /\ RouteIdle /\ RenderIdle /\ ListIdle
  /\ renderLog = <<>> /\ DrawInit /\ BuildIdle
NextDraw ==
  \/ Load /\ DrawFrame
  \/ \E lay \in Layouts : Resize(lay.w) /\ DrawFrame
  \/ \E lay \in Layouts : Reflow(lay.hh) /\ DrawFrame
  \/ SettleFire /\ DrawFrame
SpecDraw == InitDraw /\ [][NextDraw]_vars

\* The script runs, and the browser runs a timer callback that is due.
FairSpecDraw == SpecDraw /\ WF_vars(Load /\ DrawFrame) /\ WF_vars(SettleFire /\ DrawFrame)

\* build_diagram_html over catalogs, indexes and schemas.
InitBuild ==
  /\ HoverInit /\ PlaceIdle /\ EdgeIdle /\ RouteIdle /\ RenderIdle /\ ListIdle
  /\ renderLog = <<>> /\ DrawIdle /\ buildIn \in BuildInputs /\ built = <<>>
NextBuild ==
  BuildDiagram /\ UNCHANGED <<hoverVars, placeVars, edgeVars, routeVars, renderVars, listVars,
                              renderLog, drawVars>>
SpecBuild == InitBuild /\ [][NextBuild]_vars

\* render_endpoint_detail called again and again with the same record.
NextRerender ==
  RenderAgain /\ UNCHANGED <<hoverVars, placeVars, edgeVars, routeVars, listVars, drawVars,
                             buildVars>>
SpecRerender == InitRender /\ [][NextRerender]_vars

\* render_endpoint_detail over the catalogs the related records come from.
InitRelated ==
  /\ HoverInit /\ PlaceIdle /\ EdgeIdle /\ RouteIdle /\ ListIdle /\ RestIdle
  /\ renderIn \in RelatedInputs /\ renderOut = <<>>
SpecRelated == InitRelated /\ [][NextRender]_vars

\* status_code_html over the codes.
ListFrame ==
  UNCHANGED <<hoverVars, placeVars, edgeVars, routeVars, renderVars, renderLog, drawVars,
              buildVars>>
InitStatus ==
  /\ HoverInit /\ PlaceIdle /\ EdgeIdle /\ RouteIdle /\ RenderIdle /\ RestIdle
  /\ statusCode \in (0 - MaxCode)..MaxCode /\ badge = "" /\ searchIn = <<>> /\ listed = <<>>
NextStatus == ClassifyStatus /\ ListFrame
SpecStatus == InitStatus /\ [][NextStatus]_vars

\* The listing page over search texts, method filters and records.
InitSearch ==
  /\ HoverInit /\ PlaceIdle /\ EdgeIdle /\ RouteIdle /\ RenderIdle /\ RestIdle
  /\ statusCode = 0 /\ badge = "" /\ searchIn \in SearchInputs /\ listed = <<>>
NextSearch == ListEndpoints /\ ListFrame
SpecSearch == InitSearch /\ [][NextSearch]_vars

\* ------------------------------------------------------------------ claims

\* C1 (as stated): a pointer that leaves a node and re-enters the node or its
\* popup within the grace delay of that leave never finds that the popup was
\* hidden in between.
C1_ReentryNeverHidden == ~flicker

PointerAwayPopupShown == ptr = Out /\ activePopup # NoPopup
PopupGoneOrReentered == activePopup = NoPopup \/ ptr # Out

\* C2: once the pointer is away from every node and popup while a popup is
\* shown, and stays away, the popup becomes hidden; the hide branch of the
\* timer callback runs at most once per shown popup, however many callbacks
\* are pending (the later ones find no active popup).
C2_ExpiryHidesOnce ==
  /\ [](hideCount <= 1)
  /\ [](lastFire = "noop" /\ ptr = Out => visible = {} /\ activePopup = NoPopup)
  /\ (PointerAwayPopupShown ~> PopupGoneOrReentered)

C2_Witness ==
  /\ hideCount = 1
  /\ lastFire = "noop"
  /\ ptr = Out
  /\ visible = {}
  /\ sinceLeave >= GraceDelay

EnterShowsOnlyIt ==
  \A n \in Nodes : (ptr = Out /\ ptr' = OverNode(n)) => visible' = {PopupOf(n)}

\* C3: at most one popup is visible in every state, and the step in which
\* the pointer enters a node leaves exactly that node's popup visible.
C3_AtMostOneVisible ==
  /\ [](Cardinality(visible) <= 1)
  /\ [][EnterShowsOnlyIt]_vars

\* Node 2 was entered while popup 1 was still shown: the leave of node 1's
\* area scheduled the only pending callback, and no time has passed since.
C3_Witness ==
  /\ ptr = OverNode(2)
  /\ visible = {PopupOf(2)}
  /\ leftNode = 1
  /\ timers = <<GraceDelay>>
  /\ style[PopupOf(1)] # NoPos

StaleTimerChecksHover ==
  (ptr # Out /\ Len(timers') < Len(timers)) => UNCHANGED <<visible, activePopup>>

\* C4: a timer callback that runs while the pointer is over a node or a popup
\* changes neither the visible popups nor the active-popup slot, and the popup
\* of a hovered node, or a hovered popup, is visible in every state.
C4_TimerRespectsHover ==
  /\ [][StaleTimerChecksHover]_vars
  /\ [](\A n \in Nodes : ptr \in {OverNode(n), OverPopup(n)} => PopupOf(n) \in visible)

C4_Witness ==
  /\ lastFire = "noop"
  /\ ptr = OverPopup(1)
  /\ PopupOf(1) \in visible
  /\ activePopup = PopupOf(1)

NodeInside ==
  /\ geom.nr.x >= 0
  /\ geom.nr.y >= 0
  /\ geom.nr.x + geom.nr.w <= geom.dr.w
  /\ geom.nr.y + geom.nr.h <= geom.dr.h

\* C5 (as stated): for every diagram size and every node rectangle inside the
\* diagram, the placed popup (480 by 400) lies within the diagram on all four
\* sides.
C5_PopupWithinBounds ==
  (placed # NoPos /\ NodeInside) =>
    /\ 0 <= placed.left
    /\ placed.left + PopupWidth <= geom.dr.w
    /\ 0 <= placed.top
    /\ placed.top + PopupHeight <= geom.dr.h

RightOverflows == geom.nr.x + geom.nr.w + PopupGutter + PopupWidth > geom.dr.w
SpecExample == geom.dr.w = 500 /\ geom.nr.x = 450

EdgeExample == [cx |-> 100, cy |-> 100, w |-> 40, h |-> 20, tx |-> 200, ty |-> 100]

\* C7: for a node rectangle of positive width and height and a target centre
\* other than the node's centre, edgePoint returns a point on the rectangle's
\* border and on the line from the node's centre towards the target, on a
\* vertical side when |dx| * halfHeight > |dy| * halfWidth and on a horizontal
\* side otherwise; centre (100,100), 40 by 20, target (200,100) gives (120,100).
C7_EdgePointOnBorder ==
  (edgeOut # <<>> /\ (edgeIn.tx # edgeIn.cx \/ edgeIn.ty # edgeIn.cy)) =>
    LET dx == edgeIn.tx - edgeIn.cx
        dy == edgeIn.ty - edgeIn.cy
        ox == Frac(edgeOut.x.n - edgeIn.cx * edgeOut.x.d, edgeOut.x.d)
        oy == Frac(edgeOut.y.n - edgeIn.cy * edgeOut.y.d, edgeOut.y.d)
        onVertical == 2 * Abs(ox.n) = edgeIn.w * ox.d /\ 2 * Abs(oy.n) <= edgeIn.h * oy.d
        onHorizontal == 2 * Abs(oy.n) = edgeIn.h * oy.d /\ 2 * Abs(ox.n) <= edgeIn.w * ox.d
    IN /\ ox.d > 0 /\ oy.d > 0
       /\ IF Abs(dx) * edgeIn.h > Abs(dy) * edgeIn.w THEN onVertical ELSE onHorizontal
       /\ ox.n * oy.d * dy = oy.n * ox.d * dx
       /\ ox.n * dx >= 0 /\ oy.n * dy >= 0
       /\ edgeIn = EdgeExample =>
            edgeOut.x.n = 120 * edgeOut.x.d /\ edgeOut.y.n = 100 * edgeOut.y.d

C7_Witness ==
  /\ edgeIn = EdgeExample
  /\ edgeOut # <<>>
  /\ edgeOut.x.n = 120 * edgeOut.x.d
  /\ edgeOut.y.n = 100 * edgeOut.y.d

MainStep == pc = "start" /\ pc' = "nav"
NavRunStep == pc = "nav" /\ pc' = "start"
RouteId(o) == o.route[2]
CatalogRecords(cat) == {cat[i] : i \in DOMAIN cat}

MapComplete ==
  /\ DOMAIN by_id = CatalogIds(catalog)
  /\ Len(pages) = Len(catalog)
  /\ \A i \in DOMAIN catalog :
       /\ pages[i].url_path = <<"ep-", catalog[i].id>>
       /\ by_id[catalog[i].id] = pages[i]

\* C8: build_endpoint_pages maps exactly the catalog's ids, returns one page
\* per record in catalog order, each registered under its record's id, and
\* invoking the page for an id of the catalog renders the record with that id.
C8_RouteMapComplete ==
  [][/\ MainStep => MapComplete'
     /\ (NavRunStep /\ RouteId(out') \in CatalogIds(catalog)) =>
          /\ ~out'.error
          /\ out'.renderCalled
          /\ out'.rendered \in CatalogRecords(catalog)
          /\ out'.rendered.id = RouteId(out')]_vars

\* Built from the catalog <<2, 1>>, the first page, registered as ep-2, was
\* invoked and rendered record 2.
C8_Witness ==
  /\ pc = "start"
  /\ out # <<>>
  /\ Len(pages) = 2
  /\ pages[1].url_path = <<"ep-", 2>>
  /\ DOMAIN by_id = {1, 2}
  /\ out.route = <<"ep-", 2>>
  /\ out.renderCalled
  /\ out.rendered.id = 2

\* C9: invoking a page whose id is not in the catalog at that time reports
\* "not found", stops the page's run without calling the detail renderer, and
\* raises nothing.
C9_MissingRecordNotFound ==
  [][(NavRunStep /\ RouteId(out') \notin CatalogIds(catalog)) =>
       /\ out'.error
       /\ out'.stopped
       /\ ~out'.renderCalled
       /\ ~out'.raised]_vars

C9_Witness ==
  /\ pc = "start"
  /\ out # <<>>
  /\ out.error
  /\ out.stopped
  /\ ~out.renderCalled
  /\ RouteId(out) \notin CatalogIds(catalog)

\* C10: a page resolves its record when it is invoked: it renders the record
\* the catalog holds for its id at that time, whatever the record was when the
\* page was built, and reports "not found" if the record has been removed.
C10_ResolvesAtInvocation ==
  [][NavRunStep =>
       IF RouteId(out') \in CatalogIds(catalog)
       THEN /\ out'.rendered \in CatalogRecords(catalog)
            /\ out'.rendered.id = RouteId(out')
            /\ ~out'.error
       ELSE /\ out'.rendered = NoRecord
            /\ out'.error]_vars

\* The record was edited between the build and the invocation: the page still
\* carries the title of the build, and the invocation rendered the new one.
C10_Witness ==
  /\ pc = "start"
  /\ out # <<>>
  /\ out.renderCalled
  /\ out.rendered \in CatalogRecords(catalog)
  /\ \E i \in DOMAIN pages :
       pages[i].url_path = out.route /\ pages[i].title # out.rendered.title

\* ---- C11
\* C11 (as stated): handles are cached for the session: once the session's map
\* holds a handle for an id, every later step leaves that entry the same
\* handle object.
C11_HandleCached ==
  [][session_state # NoSession =>
       \A id \in DOMAIN session_state.map :
         /\ id \in DOMAIN session_state'.map
         /\ HandleOf(session_state', id) = HandleOf(session_state, id)]_vars

\* C11 (amended): every script run replaces the session's map by handle
\* objects built in that run, one per id of the catalog; the entry of an id is
\* a handle bound to that id and registered under ep-<id>.
C11_HandlesRebuiltEveryRun ==
  [][MainStep =>
       /\ session_state # NoSession => session_state'.gen # session_state.gen
       /\ DOMAIN session_state'.map = CatalogIds(catalog)
       /\ \A id \in DOMAIN session_state'.map :
            /\ session_state'.map[id].fn.endpoint_id = id
            /\ session_state'.map[id].url_path = <<"ep-", id>>]_vars

\* A second script run of the session has stored its map, after a navigation
\* to record 1 in the run before.
C11_Witness ==
  /\ pc = "nav"
  /\ session_state # NoSession
  /\ session_state.gen = 2
  /\ 1 \in DOMAIN session_state.map
  /\ out # <<>>
  /\ out.route = <<"ep-", 1>>

\* ---- C12
\* The step is the navigation of a "View details" button or of a popup link.
LinkStep == NavRunStep /\ req'.via \in {"listing", "popup"}
Registered(id) == \E i \in DOMAIN pages : pages[i].fn.endpoint_id = id

\* C12: every page is registered under ep-<id of its record>, and a "View
\* details" button or a popup link carrying an id runs the page of route
\* ep-<id> whenever such a page is registered, which renders the catalog's
\* record of that id and no other.
C12_NavigationById ==
  [][/\ \A i \in DOMAIN pages' : pages'[i].url_path = <<"ep-", pages'[i].fn.endpoint_id>>
     /\ LinkStep =>
          /\ Registered(req'.id) => out'.route = <<"ep-", req'.id>>
          /\ out'.renderCalled => out'.rendered.id = req'.id
          /\ (Registered(req'.id) /\ req'.id \in CatalogIds(catalog)) =>
               out'.rendered = get_endpoint_by_id(catalog, req'.id)]_vars

\* The button of record 2 was used when record 2 was not at the position it
\* had when the pages were built, and the page of record 2 was rendered.
C12_Witness ==
  /\ req.via = "listing"
  /\ req.id = 2
  /\ out.renderCalled
  /\ out.rendered.id = 2
  /\ \E i \in DOMAIN pages : pages[i].fn.endpoint_id = 2 /\ (i \notin DOMAIN catalog \/ catalog[i].id # 2)

\* ---- C13
Rendered == renderOut # <<>>
Emitted(name) == \E i \in DOMAIN renderOut.items : renderOut.items[i].section = name
TheSection(name) ==
  renderOut.items[CHOOSE i \in DOMAIN renderOut.items : renderOut.items[i].section = name]
TimesEmitted(name) == Cardinality({i \in DOMAIN renderOut.items : renderOut.items[i].section = name})
\* The tabular sections: the key of the list and the name of its section.
Tabular == {<<"path_params", "path_params">>, <<"query_params", "query_params">>,
            <<"request_body", "request_body">>, <<"response_fields", "response">>,
            <<"status_codes", "status_codes">>}

\* C13: for every tabular section, the marker and the table are emitted if and
\* only if the record's list or mapping is not empty, and the table then has
\* exactly one row per entry.
C13_TabularSectionIffNonEmpty ==
  Rendered =>
    \A t \in Tabular :
      LET entries == Get(renderIn.ep, t[1], <<>>)
      IN /\ (entries # <<>>) <=> Emitted(t[2])
         /\ Emitted(t[2]) =>
              /\ TimesEmitted(t[2]) = 1
              /\ TheSection(t[2]).table
              /\ Len(TheSection(t[2]).rows) = Len(entries)

\* ---- C14
\* C14: the description section is emitted only for a description_long that
\* is not empty, and the meta row holds no output for an absent or empty auth,
\* source_file or source_line: no part of it is an empty placeholder.
C14_NoPlaceholderForAbsentField ==
  Rendered =>
    /\ Emitted("description") =>
         "description_long" \in renderIn.ep.keys /\ renderIn.ep.description_long # ""
    /\ \A i \in DOMAIN TheSection("meta").rows :
         \A j \in DOMAIN TheSection("meta").rows[i].text :
           TheSection("meta").rows[i].text[j] # ""

\* ---- C15
SectionOrder == <<"header", "meta", "rule", "description", "path_params", "query_params",
                  "request_body", "response", "status_codes", "related">>
Rank(name) == CHOOSE i \in DOMAIN SectionOrder : SectionOrder[i] = name

\* C15: the emitted sections appear in the fixed order, each once; the
\* response section is labelled with the record's response status, or 200
\* when the record has none; the status rows are the record's codes in
\* ascending order.
C15_FixedOrder ==
  Rendered =>
    /\ \A i, j \in DOMAIN renderOut.items :
         i < j => Rank(renderOut.items[i].section) < Rank(renderOut.items[j].section)
    /\ renderOut.items[1].section = "header"
    /\ renderOut.items[2].section = "meta"
    /\ Emitted("response") =>
         TheSection("response").label =
           <<"Response", IF "response_status" \in renderIn.ep.keys
                         THEN renderIn.ep.response_status ELSE 200>>
    /\ Emitted("status_codes") =>
         LET rows == TheSection("status_codes").rows
         IN /\ \A i, j \in DOMAIN rows : i < j => rows[i][1] < rows[j][1]
            /\ {rows[i][1] : i \in DOMAIN rows} =
                 {renderIn.ep.status_codes[i][1] : i \in DOMAIN renderIn.ep.status_codes}

\* Every section was emitted, for a record without response_status whose
\* status codes were given in descending order.
C15_Witness ==
  /\ Rendered
  /\ ~renderOut.raised
  /\ \A i \in DOMAIN SectionOrder : Emitted(SectionOrder[i])
  /\ "response_status" \notin renderIn.ep.keys
  /\ Len(renderIn.ep.status_codes) = 2
  /\ renderIn.ep.status_codes[1][1] > renderIn.ep.status_codes[2][1]

\* ---- C16
\* Record A of the example is rendered against the example's catalog.
RendersExampleA == renderIn = [ep |-> ExampleCatalog[1], ENDPOINTS |-> ExampleCatalog]
RelatedTitles ==
  IF Emitted("related")
  THEN {TheSection("related").rows[i][3] : i \in DOMAIN TheSection("related").rows}
  ELSE {}

\* C16 (as stated): rendering A lists C as related but not B, and lists
\* neither A itself nor D.
C16_ExampleListsOnlyC ==
  (Rendered /\ RendersExampleA) =>
    /\ "C" \in RelatedTitles
    /\ "B" \notin RelatedTitles
    /\ "A" \notin RelatedTitles
    /\ "D" \notin RelatedTitles

\* C16 (amended): rendering A lists B and C as related, in this order, and
\* lists neither A itself nor D.
C16_ExampleListsBAndC ==
  (Rendered /\ RendersExampleA) =>
    /\ Emitted("related")
    /\ TheSection("related").rows =
         <<RelatedRow(ExampleCatalog[2]), RelatedRow(ExampleCatalog[3])>>
    /\ RelatedTitles = {"B", "C"}

C16_Witness == Rendered /\ RendersExampleA /\ Emitted("related")

\* ---- C17
SameGroup(e, ep) == e.tag = ep.tag /\ e.subcategory = ep.subcategory /\ e.id # ep.id
InGroup == SelectSeq(renderIn.ENDPOINTS, LAMBDA e : SameGroup(e, renderIn.ep))

\* C17: the related section is emitted only for a record whose complexity is
\* complex; its entries are exactly the catalog's records of the same tag and
\* subcategory and another id, in the catalog's order; there is no section
\* when there is no such record.
C17_RelatedRule ==
  Rendered =>
    /\ Emitted("related") =>
         /\ "complexity" \in renderIn.ep.keys
         /\ renderIn.ep.complexity = "complex"
         /\ TheSection("related").rows = [i \in DOMAIN InGroup |-> RelatedRow(InGroup[i])]
    /\ InGroup = <<>> => ~Emitted("related")
    /\ ("complexity" \in renderIn.ep.keys /\ renderIn.ep.complexity = "complex"
          /\ InGroup # <<>> /\ ~renderOut.raised) => Emitted("related")

\* A complex record was rendered with two related records, one of them
\* simple, from a catalog that holds a record of another group before them.
C17_Witness ==
  /\ Rendered
  /\ Emitted("related")
  /\ Len(InGroup) = 2
  /\ \E i \in DOMAIN InGroup : InGroup[i].complexity = "simple"
  /\ ~SameGroup(renderIn.ENDPOINTS[1], renderIn.ep)
  /\ renderIn.ENDPOINTS[1].id # renderIn.ep.id

\* ---- C18
\* C18: for request-body rows of every length the call does not raise and the
\* table has one row per entry: Yes or No for the flag of a 4-field row, the
\* unknown mark for every other row.
C18_BodyRowsTolerated ==
  Rendered =>
    LET request_body == Get(renderIn.ep, "request_body", <<>>)
    IN /\ ~renderOut.raised
       /\ request_body # <<>> =>
            /\ Emitted("request_body")
            /\ Len(TheSection("request_body").rows) = Len(request_body)
            /\ \A i \in DOMAIN request_body :
                 TheSection("request_body").rows[i][3] =
                   IF Len(request_body[i]) = 4
                   THEN (IF request_body[i][3] THEN "Yes" ELSE "No")
                   ELSE "-"

\* ---- C19
\* C19: the class of the badge is 2xx exactly for the codes below 300, 4xx
\* exactly for the codes from 300 to 499 and 5xx exactly for the codes from
\* 500 on; so 201 and 299 are 2xx, 300, 404 and 499 are 4xx, 500 and 503 5xx.
C19_StatusClass ==
  badge # "" =>
    /\ badge = "status-2xx" <=> statusCode < 300
    /\ badge = "status-4xx" <=> (300 <= statusCode /\ statusCode < 500)
    /\ badge = "status-5xx" <=> statusCode >= 500
    /\ statusCode \in {201, 299} => badge = "status-2xx"
    /\ statusCode \in {300, 404, 499} => badge = "status-4xx"
    /\ statusCode \in {500, 503} => badge = "status-5xx"

C19_Witness == statusCode = 300 /\ badge = "status-4xx"

\* ---- C20
WasListed == listed # <<>>
CardIds == {listed.cards[k] : k \in DOMAIN listed.cards}
MethodPasses(ep) == searchIn.method_filter = ALL \/ searchIn.method_filter = ep.method
TextOf(ep, key) == IF key \in ep.keys THEN ep[key] ELSE <<>>
\* t occurs in s at some position, letters compared without regard to case.
OccursIn(t, s) ==
  \E i \in 0..(Len(s) - Len(t)) : \A k \in 1..Len(t) : LowerChar(s[i + k]) = LowerChar(t[k])
\* The text without its leading and trailing blanks.
Trimmed(str) ==
  CHOOSE t \in {SubSeq(str, a, b) : a \in 1..(Len(str) + 1), b \in 0..Len(str)} :
    \E a \in 1..(Len(str) + 1), b \in 0..Len(str) :
      /\ t = SubSeq(str, a, b)
      /\ \A k \in 1..(a - 1) : str[k] = " "
      /\ \A k \in (b + 1)..Len(str) : str[k] = " "
      /\ (a <= b => str[a] # " " /\ str[b] # " ")
      /\ (a > b => \A k \in 1..Len(str) : str[k] = " ")

\* C20 (as stated): a record is listed if and only if the method filter is
\* "All" or the record's method, and the search text, without regard to case,
\* is a substring of path, title, summary and long description concatenated.
C20_ListedIffSubstringOfConcatenation ==
  WasListed =>
    \A i \in DOMAIN searchIn.ENDPOINTS :
      LET ep == searchIn.ENDPOINTS[i]
      IN ep.id \in CardIds <=>
           /\ MethodPasses(ep)
           /\ OccursIn(searchIn.search,
                       ep.path \o ep.title \o TextOf(ep, "summary") \o TextOf(ep, "description_long"))

\* C20 (amended): a record is listed, once, if and only if the method filter
\* is "All" or the record's method, and the search text without its leading
\* and trailing blanks is, without regard to case, a substring of path, title,
\* summary and long description joined by single blanks; so "meeting" with the
\* filter POST lists the POST records 2 and 4 of the example and not the GET
\* record 1.
C20_ListedIffTrimmedSubstringOfJoined ==
  WasListed =>
    /\ \A i \in DOMAIN searchIn.ENDPOINTS :
         LET ep == searchIn.ENDPOINTS[i]
         IN ep.id \in CardIds <=>
              /\ MethodPasses(ep)
              /\ OccursIn(Trimmed(searchIn.search),
                          ep.path \o <<" ">> \o ep.title \o <<" ">> \o TextOf(ep, "summary")
                            \o <<" ">> \o TextOf(ep, "description_long"))
    /\ Len(listed.cards) = Cardinality(CardIds)
    /\ listed.stopped <=> CardIds = {}
    /\ (searchIn.ENDPOINTS = SearchExample /\ searchIn.search = MEETING
          /\ searchIn.method_filter = POST) => CardIds = {2, 4}

\* "meeting" with the filter POST over the example: the POST records 2 and 4
\* are listed, the one found through an upper-case text.
C20_Witness ==
  /\ WasListed
  /\ searchIn.ENDPOINTS = SearchExample
  /\ searchIn.search = MEETING
  /\ searchIn.method_filter = POST
  /\ listed.cards = <<2, 4>>

Loaded == drawHist.scheduled > 0
\* The arrows of the document whose two node elements exist, in array order.
Eligible == {i \in DOMAIN diagram.arrows :
               diagram.arrows[i].from \in diagram.nodes /\ diagram.arrows[i].to \in diagram.nodes}
EligibleAt(k) == CHOOSE i \in Eligible : Cardinality({j \in Eligible : j <= i}) = k
SameNumber(a, b) == a.d # 0 /\ b.d # 0 /\ a.n * b.d = b.n * a.d
\* Group g joins the border points of the two nodes of arrow a under layout lay.
DrawnFor(g, a, lay) ==
  LET from == GetCenter(a.from, lay)
      to == GetCenter(a.to, lay)
      start == EdgePoint(from.x, from.y, from.w, from.h, to.x, to.y)
      end == EdgePoint(to.x, to.y, to.w, to.h, from.x, from.y)
  IN /\ SameNumber(g.line.x1, start.x) /\ SameNumber(g.line.y1, start.y)
     /\ SameNumber(g.line.x2, end.x) /\ SameNumber(g.line.y2, end.y)
     /\ (a.label = "") <=> (g.text = <<>>)
     /\ a.label # "" => Len(g.text) = 1 /\ g.text[1].textContent = a.label

\* C22: after the initial draw and any interleaving of resize redraws and the
\* settle redraw, the edge layer holds exactly one group per declared arrow
\* whose two nodes exist, parallel arrows included, none twice and none left
\* over, each computed from the node geometry at the latest redraw; before
\* the initial draw the layer is empty.
C22_LayerIsLatestRedraw ==
  IF Loaded
  THEN /\ Len(layer) = Cardinality(Eligible)
       /\ \A k \in DOMAIN layer :
            DrawnFor(layer[k], diagram.arrows[EligibleAt(k)], drawHist.at)
  ELSE layer = <<>>

\* Two resizes and the settle redraw have run in a document that lacks a node
\* and declares a parallel arrow, and the layout has changed since the latest
\* redraw.
C22_Witness ==
  /\ Loaded
  /\ drawHist.resizes >= 2
  /\ drawHist.fired = 1
  /\ diagram.nodes # DiagramNodes
  /\ Len(diagram.arrows) > Len(arrows)
  /\ Len(layer) >= 2
  /\ layer[1].line = layer[Len(layer) - 1].line
  /\ drawHist.at # layout

\* ---- C24
\* C24: the script schedules one settle timer, at load, and the timer's
\* callback runs once: no redraw schedules another, every redraw is the
\* initial draw, the settle redraw or the redraw of a resize event, and
\* without resize events the redraws are two once the timer has run.
C24_SettleOneShot ==
  /\ [](Loaded => /\ drawHist.scheduled = 1
                  /\ settle + drawHist.fired = 1
                  /\ drawHist.redraws = 1 + drawHist.fired + drawHist.resizes)
  /\ [](Loaded /\ settle = 0 /\ drawHist.resizes = 0 => drawHist.redraws = 2)
  /\ (Loaded ~> (settle = 0 /\ drawHist.fired = 1))

C24_Witness ==
  /\ Loaded
  /\ settle = 0
  /\ drawHist.fired = 1
  /\ drawHist.resizes = 0
  /\ drawHist.redraws = 2
  /\ layer # <<>>

\* ---- C25
RECURSIVE GCD(_, _)
GCD(a, b) == IF b = 0 THEN a ELSE GCD(b, a % b)
\* The fraction in lowest terms.
Norm(f) ==
  LET g == GCD(Abs(f.n), Abs(f.d))
  IN IF g = 0 THEN f ELSE Frac(f.n \div g, f.d \div g)
FSub(a, b) == Norm(Frac(a.n * b.d - b.n * a.d, a.d * b.d))
FAdd(a, b) == Norm(Frac(a.n * b.d + b.n * a.d, a.d * b.d))
FMul(a, b) == Norm(Frac(a.n * b.n, a.d * b.d))
FHalf(a) == Norm(Frac(a.n, 2 * a.d))
Labelled == {k \in DOMAIN layer : layer[k].text # <<>>}

\* C25 (as stated): the label of every labelled edge sits at the midpoint of
\* the segment between the two border points, displaced by the small constant
\* in a direction perpendicular to the segment, whatever the segment's
\* direction.
C25_LabelPerpendicularToSegment ==
  \A k \in Labelled :
    LET g == layer[k]
        dx == FSub(g.text[1].x, FHalf(FAdd(g.line.x1, g.line.x2)))
        dy == FSub(g.text[1].y, FHalf(FAdd(g.line.y1, g.line.y2)))
        sx == FSub(g.line.x2, g.line.x1)
        sy == FSub(g.line.y2, g.line.y1)
        dot == FAdd(FMul(dx, sx), FMul(dy, sy))
        len2 == FAdd(FMul(dx, dx), FMul(dy, dy))
    IN /\ dot.d # 0 /\ dot.n = 0
       /\ len2.n = LabelRaise * LabelRaise * len2.d

\* ---- C26
Returned == built # <<>> /\ ~built.raised
\* The id a link of a popup leads to.
LinkId(k) == k.href[3]
InCatalog(id) == \E i \in DOMAIN buildIn.ENDPOINTS : buildIn.ENDPOINTS[i].id = id
\* Where the catalog holds the record with this id.
CatalogPos(id) == CHOOSE i \in DOMAIN buildIn.ENDPOINTS : buildIn.ENDPOINTS[i].id = id
LinksOf(body) == UNION {{<<g, l>> : l \in DOMAIN body[g].links} : g \in DOMAIN body}

\* C26: the popup of every actor lists each endpoint of the actor's index
\* entry (each id of the entry that the catalog has) exactly once, and
\* nothing else, under the heading of its subcategory ("General" without
\* one); the headings are distinct and in first-seen order, and the endpoints
\* of a group are in the order they were met, which is the catalog's order.
C26_ActorPopupGrouping ==
  Returned =>
    \A a \in DOMAIN ACTORS :
      LET entry == buildIn.ACTOR_ENDPOINTS[ACTORS[a]]
          body == built.actors[a].body
          at(p) == CatalogPos(LinkId(body[p[1]].links[p[2]]))
      IN /\ \A i \in DOMAIN entry :
              InCatalog(entry[i]) =>
                Cardinality({p \in LinksOf(body) :
                               LinkId(body[p[1]].links[p[2]]) = entry[i]}) = 1
         /\ \A p \in LinksOf(body) :
              /\ \E i \in DOMAIN entry : entry[i] = LinkId(body[p[1]].links[p[2]])
              /\ body[p[1]].sub = Get(buildIn.ENDPOINTS[at(p)], "subcategory", "General")
         /\ \A g \in DOMAIN body : body[g].links # <<>>
         /\ \A g \in DOMAIN body : \A h \in DOMAIN body :
              g < h => body[g].sub # body[h].sub /\ at(<<g, 1>>) < at(<<h, 1>>)
         /\ \A p \in LinksOf(body) : \A q \in LinksOf(body) :
              (p[1] = q[1] /\ p[2] < q[2]) => at(p) < at(q)

\* The entry <<3, 3, 1>> against the catalog 1, 2, 3 and the entry of an
\* actor after it: one group, "Meetings", with the links of 1 and 3 in this
\* order.
C26_Witness ==
  /\ Returned
  /\ buildIn.ACTOR_ENDPOINTS["IPM Admin"] = <<3, 3, 1>>
  /\ Len(buildIn.ENDPOINTS) = 3
  /\ buildIn.ENDPOINTS[1].id = 1
  /\ Len(built.actors[1].body) = 1
  /\ built.actors[1].body[1].sub = "Meetings"
  /\ Len(built.actors[1].body[1].links) = 2
  /\ LinkId(built.actors[1].body[1].links[1]) = 1
  /\ LinkId(built.actors[1].body[1].links[2]) = 3

\* ---- C27
\* C27 (as stated): building the diagram does not fail when the index names an
\* id the catalog lacks, or when an actor or an entity the diagram uses has no
\* entry in its index or schema: the id is omitted from the popup, and the
\* popup of the actor or entity has an empty section.
C27_BuildTolerant ==
  built # <<>> =>
    /\ ~built.raised
    /\ \A a \in DOMAIN ACTORS :
         /\ \A p \in LinksOf(built.actors[a].body) :
              InCatalog(LinkId(built.actors[a].body[p[1]].links[p[2]]))
         /\ ACTORS[a] \notin DOMAIN buildIn.ACTOR_ENDPOINTS => built.actors[a].body = <<>>
    /\ \A e \in DOMAIN ENTITIES :
         ENTITIES[e] \notin DOMAIN buildIn.ENTITY_FIELDS =>
           built.entities[e].rows = <<>> /\ built.entities[e].path = ""

\* ---- C23
TimerHidStep == Len(timers') < Len(timers) /\ visible' # visible

\* C23 (as stated): a timer callback hides the visible popup only when the
\* grace delay has elapsed since the latest leave event: a callback scheduled
\* by an earlier leave, of the same node or of another, never hides the popup
\* before its own grace period is over.
C23_HiddenOnlyAfterOwnGrace ==
  [][TimerHidStep => sinceLeave >= GraceDelay]_vars

\* ---- C28
SlotMatchesVisible ==
  visible = (IF activePopup = NoPopup THEN {} ELSE {activePopup})
HideClearsSlot == TimerHidStep => activePopup' = NoPopup /\ visible' = {}

\* C28: in every state the visible popups are exactly the popup of the
\* active-popup slot, and none when the slot is empty; the timer step that
\* hides a popup empties the slot, and the step that enters a node sets the
\* slot to the node's popup and makes that popup visible.
C28_SlotConsistent ==
  /\ []SlotMatchesVisible
  /\ [][HideClearsSlot]_vars
  /\ [][\A n \in Nodes : (ptr = Out /\ ptr' = OverNode(n)) =>
           activePopup' = PopupOf(n) /\ PopupOf(n) \in visible']_vars

\* Popup 1 was shown, then popup 2, which a timer callback has just hidden.
C28_Witness ==
  /\ lastFire = "hid"
  /\ activePopup = NoPopup
  /\ visible = {}
  /\ leftNode = 2
  /\ style[PopupOf(1)] # NoPos
  /\ style[PopupOf(2)] # NoPos
====
